---- MODULE Spec2Model ----
(***************************************************************************)
(* Model of cursetool-rs's persistent response cache (src/database.rs)     *)
(* and of the cache-aware fetch layer on top of it (src/downloader.rs).    *)
(*                                                                         *)
(* Time is counted in ticks, TicksPerSec ticks to the second, so that the  *)
(* truncation of SystemTime to whole seconds (Duration::as_secs) is        *)
(* something the model computes.  Every thread runs get_or_put calls, step *)
(* by step, at the points where the code takes a lock or reads the clock.  *)
(*                                                                         *)
(* Spec      concurrent get_or_put calls on one store                      *)
(* SpecList  Downloader::request_mod_files, page by page                   *)
(* SpecInfo  Downloader::request_mod_file_info, call by call               *)
(* SpecYaml  generate_yaml_from_curse (src/main.rs), mod by mod            *)
(* SpecLoad  YamlManifest::recursive_load_from_file (src/model.rs), call   *)
(*           by call                                                       *)
(***************************************************************************)
EXTENDS Integers, FiniteSets, Sequences, TLC

\* ------------------------------------------------------------- bounds
\* Clock resolution of the model: ticks per second.
TicksPerSec == 2
\* How many ticks the clock advances past its initial value.
Horizon == 2
\* How many different bodies the origin can answer with for one URL.
MaxVersion == 2
\* How many get_or_put calls are made in one run.
MaxCalls == 2

\* How many pages of a listing the origin answers with a further page to
\* ask for; the page after them reports result_count 0 or no pagination.
MaxPages == 1
\* How many times request_mod_files is run.
MaxRuns == 1
\* How many calls other callers of the Downloader make while one of its
\* functions runs.
MaxOtherCalls == 1
\* How many mods a Curse manifest lists.
MaxMods == 3
\* How many calls of recursive_load_from_file the stack has room for.
MaxDepth == 4

\* static DEFAULT_TIMEOUT / INFINITE_TIMEOUT, in seconds.
DEFAULT_TIMEOUT == 86400
INFINITE_TIMEOUT == 86400 * 365
\* pageSize=50 of the listing URL, and the step of current_index.
PageSize == 50

Threads == {"t1", "t2"}
Urls == {"A", "B"}

\* The lifetimes (Duration) calls pass: a short and a long one, in whole
\* seconds, as the Downloader's are (DEFAULT_TIMEOUT, INFINITE_TIMEOUT).
LifetimeSecs == {1, 2}
Lifetimes == {s * TicksPerSec : s \in LifetimeSecs}

\* The clock starts late enough for now - lifetime not to precede UNIX_EPOCH.
ClockStart == 2 * TicksPerSec
MaxClock == ClockStart + Horizon

\* The two closures the Downloader passes as get_or_put's `downloader`:
\* "get" is get_with_builder's, "file_info" is request_mod_file_info's.
Kinds == {"get", "file_info"}

None == "none"

\* ------------------------------------------------------------- values
\* A String is written as a pair of what it says and a code: a code above 0
\* is ordinary text, the code TextOfNumber is a text that reads as a number
\* (such as "0012", "1.0" or "1e3").  A column value that is no TEXT but the
\* number itself carries the code NumberValue.
TextOfNumber == 0
NumberValue == 0 - 1

\* A response body of the origin for url u: version v of it, the version
\* TextOfNumber being a body that reads as a number.
Body(u, v) == <<u, v>>
\* The error a failing compute closure returns (reqwest's, or the bail!).
ComputeError == <<"compute error", 0>>
\* The bail! of request_mod_file_info's closure on an XML answer.
XmlError == <<"Miscomputed URL! returned XML", 0>>
\* The errors the closure of kind k can return.
DownloadErrors(k) ==
    IF k = "file_info" THEN {ComputeError, XmlError} ELSE {ComputeError}
NoValue == <<"", 0>>
\* The errors of rusqlite in get_or_put: of a statement (prepare_cached,
\* next, execute), of the query with its context, of the INSERT's
\* prepare_cached with its context, and of row.get on a column value that is
\* no TEXT; and the error of duration_since for an instant before UNIX_EPOCH.
SqliteError == <<"rusqlite::Error", 0>>
SearchingCacheError == <<"Searching cache", 0>>
UpdatingCacheError == <<"Updating cache", 0>>
InvalidColumnType == <<"Invalid column type Integer at index: 0, name: result", 0>>
SystemTimeError == <<"second time provided was later than self", 0>>
LookupErrors == {SqliteError, SearchingCacheError}
InsertErrors == {SqliteError, UpdatingCacheError}

\* Result<String> as get_or_put returns it.
Ok(p) == [ok |-> TRUE, val |-> p]
Err(e) == [ok |-> FALSE, val |-> e]
\* The value of `last` when no call has just returned.
NoCall == [url |-> None, lifetime |-> 0, ret |-> Err(NoValue), how |-> None,
           calledAt |-> 0, stale |-> FALSE, raced |-> FALSE]

\* A URL without a host part (such as a data: URL), and no URL at all.
NoHost == ""
NoUrl == [host |-> NoHost, path |-> ""]
\* The value of `info` when request_mod_file_info was not called, and of its
\* `before` when it was called once.
NoInfoCall == [input |-> NoUrl, key |-> NoUrl, asked |-> NoUrl,
               ret |-> Err(NoValue), hit |-> FALSE]
NoInfo == [input |-> NoUrl, key |-> NoUrl, asked |-> NoUrl,
           ret |-> Err(NoValue), hit |-> FALSE, before |-> NoInfoCall]

\* No file at a path.
NoFile == <<"no file">>

\* No CurseManifest: the input file is not parsed.
NoCurseManifest == [minecraft |-> [version |-> ""], files |-> <<>>]

\* No YamlManifest, and the value of `loadRet` while no load has ended.
NoManifest == [version |-> "", imports |-> <<>>, mods |-> <<>>]
NoLoad == [how |-> None, manifest |-> NoManifest, error |-> <<>>]

\* The value of `listRet` when no run of request_mod_files has finished.
NoRun == [ok |-> FALSE, val |-> NoValue]

VARIABLES
    now,            \* SystemTime::now(), in ticks since UNIX_EPOCH
    table,          \* the rows of curse_queries
    dbLock,         \* holder of Database.lock, or None
    rateLimiter,    \* holder of Downloader.rate_limiter, or None
    pc,             \* each thread's position in get_or_put
    url,            \* each call's `url` argument
    lifetime,       \* each call's `lifetime` argument, in ticks
    kind,           \* each call's `downloader` closure
    downloaded_at,  \* each call's local downloaded_at, in ticks
    calledAt,       \* history: the instant of each call's lookup
    stale,          \* history: whether that lookup met a row of its url
                    \* that the SELECT rejected as too old
    cachedAt,       \* history: the instant each url's row was written
    last,           \* history: the call that returned last and what it
                    \* returned, when no call used the store since;
                    \* `raced` tells that it stored over a row that was
                    \* written after its own lookup had found none
    calls,          \* history: how many calls were made so far
    \* Downloader::request_mod_files, run by the thread Caller:
    lpc,            \* "idle", or "loop" while a listing is being fetched
    current_index,  \* the local current_index
    files,          \* the local files
    requested,      \* history: the pages the run has asked for so far, each
                    \* with its index, whether `get` returned a body,
                    \* whether the body parsed, the body as parsed, and
                    \* whether the origin was asked
    listRet,        \* history: what the last finished run returned
    runs,           \* history: how many runs were started
    \* Downloader::request_mod_file_info, called by the thread Caller:
    info,           \* history: the last call: its argument, the cache key
                    \* and the URL asked from the origin, what it returned,
                    \* and the same of the call before it
    infoCalls,      \* history: how many calls were made
    download_url,   \* the argument of the call in progress, or NoUrl
    \* generate_yaml_from_curse (main.rs), one run:
    ypc,            \* "idle", "start", "resolving", or "done"
    manifest,       \* curse_manifest, as parsed from the input file
    mod_entries,    \* the YamlMod entries resolved so far
    yamlFile,       \* the file at yaml_manifest_path: NoFile, or its content
    yamlRet,        \* what the run returned
    \* YamlManifest::recursive_load_from_file (model.rs), one load:
    fs,             \* the manifest files on disk, by path, as they parse
    stack,          \* the calls in progress, the outermost first: each
                    \* with its manifest_path, the index of the import it
                    \* loads next, and its imported_manifests
    loadRet         \* how the load ended and what it returned

\* The state of the store and of the threads calling get_or_put directly.
storeVars == <<now, table, dbLock, rateLimiter, pc, url, lifetime, kind,
               downloaded_at, calledAt, stale, cachedAt, last, calls>>
\* The state of the callers above the store.
listVars == <<lpc, current_index, files, requested, listRet, runs>>
infoVars == <<info, infoCalls, download_url>>
yamlVars == <<ypc, manifest, mod_entries, yamlFile, yamlRet>>
loadVars == <<fs, stack, loadRet>>
layerVars == <<listVars, infoVars, yamlVars, loadVars>>

vars == <<storeVars, layerVars>>

\* ------------------------------------------------------------- helpers
\* Duration::as_secs of a duration since UNIX_EPOCH: whole seconds.
as_secs(ticks) == ticks \div TicksPerSec

\* The rows the SELECT of get_or_put matches:
\* WHERE url = ? AND downloaded > ?
Select(rows, u, limit_secs) ==
    {r \in rows : r.url = u /\ r.downloaded > limit_secs}

\* valid_from = now - lifetime; limit_secs = its whole seconds.
LimitSecs(t_now, life) == as_secs(t_now - life)

\* The column `result STRING` has NUMERIC affinity: a text that reads as a
\* number is stored as that number, any other text as it is.
Affinity(value) ==
    IF value[2] = TextOfNumber THEN <<value[1], NumberValue>> ELSE value

\* row.get(0) as a String: a column value that is no TEXT is an error.
RowGet(value) ==
    IF value[2] = NumberValue THEN Err(InvalidColumnType) ELSE Ok(value)

\* A plain INSERT into a table without the PRIMARY KEY on url.
InsertOrReplace_Append(rows, r) ==
    rows \cup {[r EXCEPT !.result = Affinity(@)]}

\* INSERT OR REPLACE INTO curse_queries(url, result, downloaded) on a table
\* whose url column is the PRIMARY KEY: a row with the same url is removed,
\* and the values are stored as the affinity of their columns has them.
InsertOrReplace(rows, r) ==
    {x \in rows : x.url # r.url} \cup {[r EXCEPT !.result = Affinity(@)]}

\* The row the miss branch writes.
NewRow(u, result, dl_at) ==
    [url |-> u, result |-> result, downloaded |-> as_secs(dl_at)]

\* The failure written to the table as if it were a body.
TableAfterFailure_Cached(rows, u, dl_at) ==
    {x \in rows : x.url # u}
        \cup {[url |-> u, result |-> ComputeError,
                downloaded |-> dl_at \div TicksPerSec]}

\* The failing call's stale row evicted.
TableAfterFailure_Evict(rows, u, dl_at) == {x \in rows : x.url # u}

\* The table after a compute that failed: `downloader()?` returns early.
TableAfterFailure(rows, u, dl_at) == rows

\* A hit that moves the row it read to the instant of the read.
TableAfterHit_Refresh(rows, u, t_now) ==
    {IF x.url = u THEN [x EXCEPT !.downloaded = as_secs(t_now)] ELSE x
        : x \in rows}

\* The table after a hit: the hit branch returns the row's result and
\* executes no statement but the SELECT.
TableAfterHit(rows, u, t_now) == rows

\* The lock given back before `downloader` runs.
MissLockHolder_Dropped(t) == None

\* The holder of Database.lock while the miss branch runs `downloader`:
\* the guard `conn` taken before it lives to the end of the branch.
MissLockHolder(t) == t

\* Whether a closure takes the rate_limiter around its network call.
TakesGate(k) == k = "get"

Rows(u) == {r \in table : r.url = u}

\* ------------------------------------------------------------- state
\* No listing is being fetched and none was.
ListIdle ==
    /\ lpc = "idle"
    /\ current_index = 0
    /\ files = <<>>
    /\ requested = <<>>
    /\ listRet = NoRun
    /\ runs = 0

\* request_mod_file_info was not called.
InfoIdle ==
    /\ info = NoInfo
    /\ infoCalls = 0
    /\ download_url = NoUrl

\* generate_yaml_from_curse is not run.
YamlIdle ==
    /\ ypc = "idle"
    /\ manifest = NoCurseManifest
    /\ mod_entries = <<>>
    /\ yamlFile = NoFile
    /\ yamlRet = NoRun

\* No manifest is being loaded.
LoadIdle ==
    /\ fs = <<>>
    /\ stack = <<>>
    /\ loadRet = NoLoad

\* The cache file outlives the process: a run starts with the rows earlier
\* runs left, here any set of rows written at the instant the run starts.
Init ==
    /\ now = ClockStart
    /\ \E have \in SUBSET Urls :
          /\ table = {NewRow(u, Body(u, 1), ClockStart) : u \in have}
          /\ cachedAt = [u \in Urls |-> IF u \in have THEN ClockStart ELSE 0]
    /\ dbLock = None
    /\ rateLimiter = None
    /\ pc = [t \in Threads |-> "idle"]
    /\ url = [t \in Threads |-> None]
    /\ lifetime = [t \in Threads |-> 0]
    /\ kind = [t \in Threads |-> None]
    /\ downloaded_at = [t \in Threads |-> 0]
    /\ calledAt = [t \in Threads |-> 0]
    /\ stale = [t \in Threads |-> FALSE]
    /\ last = NoCall
    /\ calls = 0
    /\ ListIdle
    /\ InfoIdle
    /\ YamlIdle
    /\ LoadIdle

\* The wall clock advances.
Tick ==
    /\ now < MaxClock
    /\ now' = now + 1
    /\ UNCHANGED <<table, dbLock, rateLimiter, pc, url, lifetime, kind,
                   downloaded_at, calledAt, stale, cachedAt, last, calls>>
    /\ UNCHANGED layerVars

\* get_with_builder with the rate_limiter taken before the cache is asked.
Call_GateFirst(t, u, life, k) ==
    /\ pc[t] = "idle"
    /\ calls < MaxCalls
    /\ IF TakesGate(k)
       THEN rateLimiter = None /\ rateLimiter' = t
       ELSE rateLimiter' = rateLimiter
    /\ calls' = calls + 1
    /\ pc' = [pc EXCEPT ![t] = "lookup"]
    /\ url' = [url EXCEPT ![t] = u]
    /\ lifetime' = [lifetime EXCEPT ![t] = life]
    /\ kind' = [kind EXCEPT ![t] = k]
    /\ UNCHANGED <<now, table, dbLock, downloaded_at, calledAt, stale,
                   cachedAt, last>>
    /\ UNCHANGED layerVars

\* A thread that is in no call calls get_or_put(u, life, closure k).
Call(t, u, life, k) ==
    /\ pc[t] = "idle"
    /\ calls < MaxCalls
    /\ calls' = calls + 1
    /\ pc' = [pc EXCEPT ![t] = "lookup"]
    /\ url' = [url EXCEPT ![t] = u]
    /\ lifetime' = [lifetime EXCEPT ![t] = life]
    /\ kind' = [kind EXCEPT ![t] = k]
    /\ UNCHANGED <<now, table, dbLock, rateLimiter, downloaded_at, calledAt,
                   stale, cachedAt, last>>
    /\ UNCHANGED layerVars

\* The call of thread t returns r: its locals go out of scope.
Returns(t, r, how) ==
    /\ pc' = [pc EXCEPT ![t] = "idle"]
    /\ url' = [url EXCEPT ![t] = None]
    /\ lifetime' = [lifetime EXCEPT ![t] = 0]
    /\ kind' = [kind EXCEPT ![t] = None]
    /\ calledAt' = [calledAt EXCEPT ![t] = 0]
    /\ stale' = [stale EXCEPT ![t] = FALSE]
    /\ last' = [url |-> url[t], lifetime |-> lifetime[t], ret |-> r, how |-> how,
                calledAt |-> IF how = "hit" THEN now ELSE calledAt[t],
                stale |-> stale[t],
                raced |-> how = "stored" /\ ~stale[t] /\ Rows(url[t]) # {}]

\* The first block of get_or_put: lock, SELECT, unlock.  An instant
\* now - lifetime before UNIX_EPOCH is an error; a hit returns the row's
\* result as row.get reads it; a miss goes on to the miss branch.
LookupStep(t) ==
    /\ pc[t] = "lookup"
    /\ dbLock = None
    /\ LET found == Select(table, url[t], LimitSecs(now, lifetime[t]))
       IN  IF now < lifetime[t]
           THEN /\ Returns(t, Err(SystemTimeError), "error")
                /\ table' = table
           ELSE IF found # {}
           THEN /\ Returns(t, RowGet((CHOOSE r \in found : TRUE).result), "hit")
                /\ table' = TableAfterHit(table, url[t], now)
           ELSE /\ pc' = [pc EXCEPT ![t] = "miss"]
                /\ table' = table
                /\ calledAt' = [calledAt EXCEPT ![t] = now]
                /\ stale' = [stale EXCEPT ![t] = Rows(url[t]) # {}]
                /\ last' = NoCall
                /\ UNCHANGED <<url, lifetime, kind>>
    /\ UNCHANGED <<now, dbLock, rateLimiter, downloaded_at, cachedAt, calls>>

\* The first block, run by a caller of get_or_put itself.
Lookup(t) ==
    /\ LookupStep(t)
    /\ UNCHANGED layerVars

\* A statement of the first block fails (prepare_cached, query or next): `?`
\* returns the error, the lock is given back.
LookupFailsStep(t, e) ==
    /\ pc[t] = "lookup"
    /\ dbLock = None
    /\ Returns(t, Err(e), "error")
    /\ UNCHANGED <<now, table, dbLock, rateLimiter, downloaded_at, cachedAt,
                   calls>>

\* The failing first block, run by a caller of get_or_put itself.
LookupFails(t, e) ==
    /\ LookupFailsStep(t, e)
    /\ UNCHANGED layerVars

\* The miss branch takes the lock again and reads the clock.
AcquireMiss(t) ==
    /\ pc[t] = "miss"
    /\ dbLock = None
    /\ dbLock' = MissLockHolder(t)
    /\ downloaded_at' = [downloaded_at EXCEPT ![t] = now]
    /\ pc' = [pc EXCEPT ![t] = "compute"]
    /\ UNCHANGED <<now, table, rateLimiter, url, lifetime, kind, calledAt,
                   stale, cachedAt, last, calls>>
    /\ UNCHANGED layerVars

\* The closure starts its network call, get_with_builder's under the gate.
StartRequest(t) ==
    /\ pc[t] = "compute"
    /\ IF TakesGate(kind[t])
       THEN /\ rateLimiter = None
            /\ rateLimiter' = t
       ELSE rateLimiter' = rateLimiter
    /\ pc' = [pc EXCEPT ![t] = "net"]
    /\ UNCHANGED <<now, table, dbLock, url, lifetime, kind, downloaded_at,
                   calledAt, stale, cachedAt, last, calls>>
    /\ UNCHANGED layerVars

\* The end of the miss branch: its guards are dropped (Database.lock, and
\* the closure's rate_limiter guard).
EndMiss(t) ==
    /\ dbLock' = IF dbLock = t THEN None ELSE dbLock
    /\ rateLimiter' = IF rateLimiter = t THEN None ELSE rateLimiter
    /\ downloaded_at' = [downloaded_at EXCEPT ![t] = 0]

\* The network call answers with body p: the closure returns Ok(p), the row
\* is written and the call returns Ok(p).
ComputeOkStep(t, p) ==
    /\ pc[t] = "net"
    /\ table' = InsertOrReplace(table, NewRow(url[t], p, downloaded_at[t]))
    /\ cachedAt' = [cachedAt EXCEPT ![url[t]] = now]
    /\ EndMiss(t)
    /\ Returns(t, Ok(p), "stored")
    /\ UNCHANGED <<now, calls>>

\* The stored answer, returned to a caller of get_or_put itself.
ComputeOk(t, p) ==
    /\ ComputeOkStep(t, p)
    /\ UNCHANGED layerVars

\* The network call answers with body p and the INSERT fails (prepare_cached
\* or execute): `?` returns the error, no row is written, p is dropped.
InsertFailsStep(t, e) ==
    /\ pc[t] = "net"
    /\ EndMiss(t)
    /\ Returns(t, Err(e), "error")
    /\ UNCHANGED <<now, table, cachedAt, calls>>

\* The failing INSERT, returned to a caller of get_or_put itself.
InsertFails(t, e) ==
    /\ InsertFailsStep(t, e)
    /\ UNCHANGED layerVars

\* The error with a context put around it on its way out of get_or_put.
Propagate_Context(e) == <<"Updating cache", e[2]>>

\* `downloader()?`: the closure's anyhow::Error is returned as it is (the
\* conversion of `?` from anyhow::Error to anyhow::Error is the identity, and
\* line 79 attaches no context).
Propagate(e) == e

\* The failed closure run again by the same call.
Fails_Retry(t, e) ==
    /\ pc[t] = "net"
    /\ pc' = [pc EXCEPT ![t] = "compute"]
    /\ rateLimiter' = IF rateLimiter = t THEN None ELSE rateLimiter
    /\ UNCHANGED <<now, table, dbLock, url, lifetime, kind, downloaded_at,
                   calledAt, stale, cachedAt, last, calls>>
    /\ UNCHANGED layerVars

\* The closure fails with error e: the call returns early with it.
FailsStep(t, e) ==
    /\ pc[t] = "net"
    /\ table' = TableAfterFailure(table, url[t], downloaded_at[t])
    /\ EndMiss(t)
    /\ Returns(t, Err(Propagate(e)), "failed")
    /\ UNCHANGED <<now, cachedAt, calls>>

\* The closure's error, returned to a caller of get_or_put itself.
Fails(t, e) ==
    /\ FailsStep(t, e)
    /\ UNCHANGED layerVars

\* The network call fails: the closure returns Err, and so does the call.
ComputeFail(t) == \E e \in DownloadErrors(kind[t]) : Fails(t, e)

\* The Strings the closure of a call for url u can return.
Outputs(u) == {Body(u, v) : v \in {TextOfNumber} \cup 1..MaxVersion}

Next ==
    \/ Tick
    \/ \E t \in Threads, u \in Urls, life \in Lifetimes, k \in Kinds :
          Call(t, u, life, k)
    \/ \E t \in Threads : Lookup(t)
    \/ \E t \in Threads : \E e \in LookupErrors : LookupFails(t, e)
    \/ \E t \in Threads : AcquireMiss(t)
    \/ \E t \in Threads : StartRequest(t)
    \/ \E t \in Threads : \E p \in Outputs(url[t]) : ComputeOk(t, p)
    \/ \E t \in Threads : \E e \in InsertErrors : InsertFails(t, e)
    \/ \E t \in Threads : ComputeFail(t)

Spec == Init /\ [][Next]_vars

\* The steps of thread t inside a call.
ThreadStep(t) ==
    \/ Lookup(t)
    \/ \E e \in LookupErrors : LookupFails(t, e)
    \/ AcquireMiss(t)
    \/ StartRequest(t)
    \/ \E p \in Outputs(url[t]) : ComputeOk(t, p)
    \/ \E e \in InsertErrors : InsertFails(t, e)
    \/ ComputeFail(t)

\* ------------------------------------------------- the file listing
\* Downloader::request_mod_files of one project and game version, run by
\* one thread on the same store while other threads call the same
\* Downloader.  Each iteration is one Downloader::get, that is one
\* get_or_put with cache_timeout = DEFAULT_TIMEOUT, taken step by step as
\* the store takes it.

\* Downloader.cache_timeout as Downloader::new sets it, in ticks.
cache_timeout == DEFAULT_TIMEOUT * TicksPerSec

\* The instants the clock of a listing run is sampled at: an instant in the
\* middle of a second, the last tick before cache_timeout has passed since,
\* and the tick at which it has.
ListClockStart == 2 * cache_timeout + 1
ListClocks ==
    {ListClockStart, ListClockStart + cache_timeout - 1,
     ListClockStart + cache_timeout}

\* The URL of the page at `index`: the key of its cache entry.
PageUrl(index) == <<"/v1/mods/1/files?gameVersion=v&pageSize=50&index=", index>>
PageUrls == {PageUrl(i * PageSize) : i \in 0..MaxPages}

\* A CurseModFile of the listing; the catalog's download URLs come with the
\* filename percent-encoded or not.
File(n) ==
    [id |-> n,
     download_url |-> [dir |-> n,
                       filename |-> IF n % 2 = 1 THEN "a+b.jar"
                                                 ELSE "a%2Bb.jar"]]

\* urlencoding::decode and urlencoding::encode on the filenames above.
Decode(name) == IF name = "a%2Bb.jar" THEN "a+b.jar" ELSE name
Encode(name) == IF name = "a+b.jar" THEN "a%2Bb.jar" ELSE name

\* Downloader::encode_url: the filename segment decoded, then encoded.
encode_url(file) ==
    [file EXCEPT !.download_url.filename = Encode(Decode(@))]

\* Option<Pagination>::None, where Some(p) is written as p.result_count.
NoPagination == 0 - 1

\* The bodies the origin can answer the page at `index` with, as
\* CurseWrapper<Vec<CurseModFile>>: `data`, and `pagination` (absent, or its
\* result_count).
OriginPages(index) ==
    [data : {<<>>, <<File(index + 1), File(index + 2)>>},
     pagination : IF index >= MaxPages * PageSize THEN {NoPagination, 0}
                  ELSE {NoPagination, 0, PageSize}]

\* What is recorded for a page whose `get` failed or did not parse.
NoPage == [data |-> <<>>, pagination |-> NoPagination]

\* The thread that runs the Downloader function of the layer; the other
\* threads are other callers of the same Downloader.
Caller == "t1"
Others == Threads \ {Caller}

\* The text of the response: the JSON of a CurseWrapper<Vec<CurseModFile>>,
\* a text that is no such JSON (an HTML error page, {"error":"x"}), the
\* JSON of another endpoint, and a text that reads as a number (123, 1e3),
\* which is no such JSON either.
PageJson(page) == <<page, 1>>
Unparsable == <<NoPage, 2>>
AddonJson == <<NoPage, 3>>
NumberText == <<NoPage, TextOfNumber>>

\* serde_json::from_str::<CurseWrapper<Vec<CurseModFile>>>(&data)
SerdeError == <<"serde_json::Error", 0>>
from_str(data) == IF data[2] = 1 THEN Ok(data[1]) ELSE Err(SerdeError)

\* The URL request_addon_info asks for: a key other than the pages'.
AddonUrl == <<"/v1/mods/", 1>>
ListUrls == PageUrls \cup {AddonUrl}

\* The texts the origin can answer a request for URL u with.
OriginBodies(u) ==
    IF u = AddonUrl THEN {AddonJson, NumberText}
    ELSE {PageJson(page) : page \in OriginPages(u[2])}
            \cup {Unparsable, NumberText}

\* The errors request_mod_files returns.
FetchError(index) == <<"Fetching files for project id 1 at index", index>>
ParsingFilesError == <<"Parsing files list as JSON for project id 1", 0>>
NoPaginationError == <<"No pagination in file listing for project id 1!", 0>>

\* The new page put before the files gathered so far.
AppendPage_Front(gathered, data) == data \o gathered

\* files.append(&mut result.data)
AppendPage(gathered, data) == gathered \o data

\* A page without pagination taken for the end of the listing.
AfterPage_Lenient(page) ==
    IF page.pagination = NoPagination \/ page.pagination = 0 THEN "break"
    ELSE "continue"

\* What the loop does after appending a page: `?` on a missing pagination,
\* break on result_count == 0, otherwise the next iteration.
AfterPage(page) ==
    IF page.pagination = NoPagination THEN "error"
    ELSE IF page.pagination = 0 THEN "break"
    ELSE "continue"

\* files.into_iter().map(Downloader::encode_url).collect()
EncodeAll(fl) == [i \in 1..Len(fl) |-> encode_url(fl[i])]

\* The pages an earlier process can have left in the cache file, all
\* written at the instant the run starts: for each URL no row, or the row
\* its INSERT made of a text the origin answered.
Leftovers ==
    {rows \in SUBSET UNION {UNION {InsertOrReplace({}, NewRow(u, p, ListClockStart))
                                       : p \in OriginBodies(u)}
                                : u \in PageUrls} :
        \A x, y \in rows : x.url = y.url => x = y}

\* A listing run starts at any sampled instant on the cache file as earlier
\* runs left it.
InitList ==
    /\ now = ListClockStart
    /\ table \in Leftovers
    /\ cachedAt = [u \in ListUrls |->
                     IF \E r \in table : r.url = u THEN ListClockStart ELSE 0]
    /\ dbLock = None
    /\ rateLimiter = None
    /\ pc = [t \in Threads |-> "idle"]
    /\ url = [t \in Threads |-> None]
    /\ lifetime = [t \in Threads |-> 0]
    /\ kind = [t \in Threads |-> None]
    /\ downloaded_at = [t \in Threads |-> 0]
    /\ calledAt = [t \in Threads |-> 0]
    /\ stale = [t \in Threads |-> FALSE]
    /\ last = NoCall
    /\ calls = 0
    /\ ListIdle
    /\ InfoIdle
    /\ YamlIdle
    /\ LoadIdle

\* What a step of request_mod_files leaves alone above the store.
ListFrame == UNCHANGED <<infoVars, yamlVars, loadVars>>

\* What a step outside get_or_put leaves alone in the store.
StoreFrame ==
    UNCHANGED <<table, dbLock, rateLimiter, pc, url, lifetime, kind,
                downloaded_at, calledAt, stale, cachedAt, last, calls>>

\* The wall clock advances to a later sampled instant.
Advance(to) ==
    /\ to > now
    /\ now' = to
    /\ StoreFrame
    /\ UNCHANGED layerVars

\* request_mod_files is called.
StartListing ==
    /\ lpc = "idle"
    /\ pc[Caller] = "idle"
    /\ runs < MaxRuns
    /\ runs' = runs + 1
    /\ lpc' = "loop"
    /\ current_index' = 0
    /\ files' = <<>>
    /\ requested' = <<>>
    /\ listRet' = NoRun
    /\ UNCHANGED now
    /\ StoreFrame
    /\ ListFrame

\* The head of an iteration: self.get(url), that is get_with_builder's
\* get_or_put(url, cache_timeout, closure) for the page at current_index.
PageCall ==
    /\ lpc = "loop"
    /\ pc[Caller] = "idle"
    /\ pc' = [pc EXCEPT ![Caller] = "lookup"]
    /\ url' = [url EXCEPT ![Caller] = PageUrl(current_index)]
    /\ lifetime' = [lifetime EXCEPT ![Caller] = cache_timeout]
    /\ kind' = [kind EXCEPT ![Caller] = "get"]
    /\ UNCHANGED <<now, table, dbLock, rateLimiter, downloaded_at, calledAt,
                   stale, cachedAt, last, calls>>
    /\ UNCHANGED layerVars

\* request_mod_files returns r: its locals go out of scope.
ListReturns(r) ==
    /\ lpc' = "idle"
    /\ current_index' = 0
    /\ files' = <<>>
    /\ listRet' = r

\* The rest of an iteration once the page is parsed: append, pagination
\* check, index step.
Continue(page, asked) ==
    /\ requested' = Append(requested, [index |-> current_index, got |-> TRUE,
                                       parsed |-> TRUE, page |-> page,
                                       origin |-> asked])
    /\ CASE AfterPage(page) = "error" -> ListReturns(Err(NoPaginationError))
         [] AfterPage(page) = "break" ->
               ListReturns(Ok(EncodeAll(AppendPage(files, page.data))))
         [] OTHER ->
               /\ files' = AppendPage(files, page.data)
               /\ current_index' = current_index + PageSize
               /\ UNCHANGED <<lpc, listRet>>

\* `get` has returned r to the iteration, having asked the origin or not:
\* `?` on its error, from_str and `?` on what does not parse, then the rest.
GetReturned(r, asked) ==
    /\ IF ~r.ok
       THEN /\ requested' = Append(requested,
                               [index |-> current_index, got |-> FALSE,
                                parsed |-> FALSE, page |-> NoPage,
                                origin |-> asked])
            /\ ListReturns(Err(FetchError(current_index)))
       ELSE IF ~from_str(r.val).ok
       THEN /\ requested' = Append(requested,
                               [index |-> current_index, got |-> TRUE,
                                parsed |-> FALSE, page |-> NoPage,
                                origin |-> asked])
            /\ ListReturns(Err(ParsingFilesError))
       ELSE Continue(from_str(r.val).val, asked)
    /\ UNCHANGED runs
    /\ ListFrame

\* An iteration whose `get` finds no row young enough: it goes on to the
\* miss branch, the lock given back in between.
PageMiss ==
    /\ lpc = "loop"
    /\ LookupStep(Caller)
    /\ pc'[Caller] = "miss"
    /\ UNCHANGED layerVars

\* An iteration whose `get` is a cache hit.
PageHit ==
    /\ lpc = "loop"
    /\ LookupStep(Caller)
    /\ pc'[Caller] = "idle"
    /\ GetReturned(last'.ret, FALSE)

\* An iteration whose `get` fails in its first block.
PageLookupFails(e) ==
    /\ lpc = "loop"
    /\ LookupFailsStep(Caller, e)
    /\ GetReturned(last'.ret, FALSE)

\* An iteration whose `get` is a miss answered by the origin with body p.
PageFetched(p) ==
    /\ lpc = "loop"
    /\ ComputeOkStep(Caller, p)
    /\ GetReturned(last'.ret, TRUE)

\* An iteration whose `get` is a miss answered by the origin, and whose
\* INSERT fails.
PageInsertFails(e) ==
    /\ lpc = "loop"
    /\ InsertFailsStep(Caller, e)
    /\ GetReturned(last'.ret, TRUE)

\* An iteration whose `get` is a miss and whose origin request fails.
PageFailed(e) ==
    /\ lpc = "loop"
    /\ FailsStep(Caller, e)
    /\ GetReturned(last'.ret, TRUE)

\* Another caller of the same Downloader (request_mod_files, request_mod_file,
\* request_addon_info, search_id_with_slug) calls `get` for URL u.
OtherGet(t, u) ==
    /\ calls < MaxOtherCalls
    /\ Call(t, u, cache_timeout, "get")

NextList ==
    \/ \E to \in ListClocks : Advance(to)
    \/ StartListing
    \/ PageCall
    \/ PageMiss
    \/ PageHit
    \/ \E e \in LookupErrors : PageLookupFails(e)
    \/ pc[Caller] = "net" /\ \E p \in OriginBodies(url[Caller]) : PageFetched(p)
    \/ \E e \in InsertErrors : PageInsertFails(e)
    \/ \E e \in DownloadErrors("get") : PageFailed(e)
    \/ \E t \in Threads : AcquireMiss(t)
    \/ \E t \in Threads : StartRequest(t)
    \/ \E t \in Others, u \in ListUrls : OtherGet(t, u)
    \/ \E t \in Others : Lookup(t)
    \/ \E t \in Others : \E e \in LookupErrors : LookupFails(t, e)
    \/ \E t \in Others :
          pc[t] = "net" /\ \E p \in OriginBodies(url[t]) : ComputeOk(t, p)
    \/ \E t \in Others : \E e \in InsertErrors : InsertFails(t, e)
    \/ \E t \in Others : ComputeFail(t)

SpecList == InitList /\ [][NextList]_vars

\* ------------------------------------------------- file info by URL
\* Downloader::request_mod_file_info, called by one thread on the same store
\* while other threads call the same Downloader; its get_or_put is taken
\* step by step as the store takes it.

\* The download URLs the calls are made with, as Url::parse reads them:
\* host and the rest.
Hosts == {"edge.forgecdn.net", "media.forgecdn.net", "mediafilez.forgecdn.net",
          NoHost}
DownloadUrls ==
    {[host |-> h, path |-> "/files/1/a.jar"] : h \in Hosts}
        \cup {[host |-> "media.forgecdn.net", path |-> "/files/2/b.jar"]}

\* The URL left as it came.
Normalize_Keep(u) == u

\* if host == "edge.forgecdn.net" { set_host(Some("media.forgecdn.net")) }
Normalize(u) ==
    IF u.host = "edge.forgecdn.net"
    THEN [u EXCEPT !.host = "media.forgecdn.net"]
    ELSE u

\* The lifetime request_mod_file_info passes, in ticks.
InfoLifetime == INFINITE_TIMEOUT * TicksPerSec

\* The instants the clock is sampled at: late enough for now - lifetime not
\* to precede UNIX_EPOCH.
InfoClockStart == 2 * InfoLifetime
InfoClocks == {InfoClockStart, InfoClockStart + 1}

\* CurseModFileInfo of the bytes (version v) the origin serves at URL u.
FileInfo(u, v) == [md5 |-> <<u.path, v>>, sha256 |-> <<u.path, v>>,
                   size |-> v, download_url |-> u]

\* serde_json::to_string of a CurseModFileInfo, and serde_json::from_str of
\* the text of one (from_str, above, reads the text of any JSON).
ToJson(i) == <<i, 1>>
FromJson(j) == j[1]

\* The error of a download_url without a host part.
MissingHostError == <<"download_url missing host part!", 0>>

\* An argument that is no URL, and the error of Url::parse on it.
NotAUrl == [host |-> NoHost, path |-> "not a url"]
UrlParseError == <<"relative URL without a base", 0>>

\* The keys of the cache entries: the download URLs as the calls rewrite
\* them.
InfoKeys == {Normalize(u) : u \in {d \in DownloadUrls : d.host # NoHost}}

InitInfo ==
    /\ now = InfoClockStart
    /\ table = {}
    /\ cachedAt = [u \in InfoKeys |-> 0]
    /\ dbLock = None
    /\ rateLimiter = None
    /\ pc = [t \in Threads |-> "idle"]
    /\ url = [t \in Threads |-> None]
    /\ lifetime = [t \in Threads |-> 0]
    /\ kind = [t \in Threads |-> None]
    /\ downloaded_at = [t \in Threads |-> 0]
    /\ calledAt = [t \in Threads |-> 0]
    /\ stale = [t \in Threads |-> FALSE]
    /\ last = NoCall
    /\ calls = 0
    /\ ListIdle
    /\ InfoIdle
    /\ YamlIdle
    /\ LoadIdle

\* What a step of request_mod_file_info leaves alone above the store.
InfoFrame == UNCHANGED <<listVars, yamlVars, loadVars>>

\* The call with argument u returns r, having used cache key k and asked
\* the origin for URL a (NoUrl when it asked for none).
InfoReturns(u, k, a, r, h) ==
    /\ infoCalls' = infoCalls + 1
    /\ download_url' = NoUrl
    /\ info' = [input |-> u, key |-> k, asked |-> a, ret |-> r, hit |-> h,
                before |-> [input |-> info.input, key |-> info.key,
                            asked |-> info.asked, ret |-> info.ret,
                            hit |-> info.hit]]
    /\ InfoFrame

\* A call whose argument Url::parse rejects: `?`, the store is not asked.
InfoParseFails ==
    /\ pc[Caller] = "idle"
    /\ download_url = NoUrl
    /\ infoCalls < MaxCalls
    /\ InfoReturns(NotAUrl, NoUrl, NoUrl, Err(UrlParseError), FALSE)
    /\ UNCHANGED now
    /\ StoreFrame

\* A call whose URL has no host part: bail!, the store is not asked.
InfoNoHost(u) ==
    /\ pc[Caller] = "idle"
    /\ download_url = NoUrl
    /\ infoCalls < MaxCalls
    /\ u.host = NoHost
    /\ InfoReturns(u, NoUrl, NoUrl, Err(MissingHostError), FALSE)
    /\ UNCHANGED now
    /\ StoreFrame

\* A call whose URL has a host part: the host is rewritten and get_or_put is
\* called with the URL as key, INFINITE_TIMEOUT and the downloading closure.
InfoCall(u) ==
    /\ pc[Caller] = "idle"
    /\ download_url = NoUrl
    /\ infoCalls < MaxCalls
    /\ u.host # NoHost
    /\ download_url' = u
    /\ pc' = [pc EXCEPT ![Caller] = "lookup"]
    /\ url' = [url EXCEPT ![Caller] = Normalize(u)]
    /\ lifetime' = [lifetime EXCEPT ![Caller] = InfoLifetime]
    /\ kind' = [kind EXCEPT ![Caller] = "file_info"]
    /\ UNCHANGED <<now, table, dbLock, rateLimiter, downloaded_at, calledAt,
                   stale, cachedAt, last, calls, info, infoCalls>>
    /\ InfoFrame

\* get_or_put has returned r to the call, having run the closure or not:
\* `?` on its error, from_str and `?` on the text.
JsonReturned(r, ran) ==
    LET asked == IF ran THEN url[Caller] ELSE NoUrl
    IN  IF ~r.ok
        THEN InfoReturns(download_url, url[Caller], asked, r, FALSE)
        ELSE IF ~from_str(r.val).ok
        THEN InfoReturns(download_url, url[Caller], asked,
                         Err(SerdeError), ~ran)
        ELSE InfoReturns(download_url, url[Caller], asked,
                         Ok(FromJson(r.val)), ~ran)

\* A call that finds no row young enough: it goes on to the miss branch,
\* the lock given back in between.
InfoMiss ==
    /\ download_url # NoUrl
    /\ LookupStep(Caller)
    /\ pc'[Caller] = "miss"
    /\ UNCHANGED layerVars

\* A call answered from the cache.
InfoHit ==
    /\ download_url # NoUrl
    /\ LookupStep(Caller)
    /\ pc'[Caller] = "idle"
    /\ JsonReturned(last'.ret, FALSE)

\* A call whose get_or_put fails in its first block.
InfoLookupFails(e) ==
    /\ download_url # NoUrl
    /\ LookupFailsStep(Caller, e)
    /\ JsonReturned(last'.ret, FALSE)

\* A call that misses: the closure downloads version v of the file from the
\* rewritten URL and the row is written.
InfoFetched(v) ==
    /\ download_url # NoUrl
    /\ ComputeOkStep(Caller, ToJson(FileInfo(url[Caller], v)))
    /\ JsonReturned(last'.ret, TRUE)

\* A call that misses, whose closure downloads the file and whose INSERT
\* fails.
InfoInsertFails(e) ==
    /\ download_url # NoUrl
    /\ InsertFailsStep(Caller, e)
    /\ JsonReturned(last'.ret, TRUE)

\* A call that misses and whose closure fails with error e.
InfoFailed(e) ==
    /\ download_url # NoUrl
    /\ FailsStep(Caller, e)
    /\ JsonReturned(last'.ret, TRUE)

\* The wall clock advances.
InfoAdvance(to) ==
    /\ to > now
    /\ now' = to
    /\ StoreFrame
    /\ UNCHANGED layerVars

\* Another caller of the same Downloader calls request_mod_file_info, here
\* its get_or_put, for key u.
OtherInfo(t, u) ==
    /\ calls < MaxOtherCalls
    /\ Call(t, u, InfoLifetime, "file_info")

\* The closure of another caller's call downloads version v of the file.
OtherFetched(t, v) ==
    /\ pc[t] = "net"
    /\ ComputeOk(t, ToJson(FileInfo(url[t], v)))

NextInfo ==
    \/ \E to \in InfoClocks : InfoAdvance(to)
    \/ InfoParseFails
    \/ \E u \in DownloadUrls : InfoNoHost(u)
    \/ \E u \in DownloadUrls : InfoCall(u)
    \/ InfoMiss
    \/ InfoHit
    \/ \E e \in LookupErrors : InfoLookupFails(e)
    \/ \E v \in 1..MaxVersion : InfoFetched(v)
    \/ \E e \in InsertErrors : InfoInsertFails(e)
    \/ \E e \in DownloadErrors("file_info") : InfoFailed(e)
    \/ \E t \in Threads : AcquireMiss(t)
    \/ \E t \in Threads : StartRequest(t)
    \/ \E t \in Others, u \in InfoKeys : OtherInfo(t, u)
    \/ \E t \in Others : Lookup(t)
    \/ \E t \in Others : \E e \in LookupErrors : LookupFails(t, e)
    \/ \E t \in Others : \E v \in 1..MaxVersion : OtherFetched(t, v)
    \/ \E t \in Others : \E e \in InsertErrors : InsertFails(t, e)
    \/ \E t \in Others : ComputeFail(t)

SpecInfo == InitInfo /\ [][NextInfo]_vars

\* ------------------------------------------------- yaml from curse
\* generate_yaml_from_curse (main.rs): the manifest's mods are resolved one
\* by one, in order, each by generate_yaml_mod_entry; then the entries are
\* sorted and the output file is written.

\* The ModFile entries of a manifest.
ModFiles == [project_id : {238222, 228756}, file_id : {3043174, 2747935}]
\* The versions a Curse manifest states as minecraft.version.
MinecraftVersions == {"1.12.2", "1.16.5"}
Manifests ==
    [minecraft : [version : MinecraftVersions],
     files : UNION {[1..n -> ModFiles] : n \in 0..MaxMods}]

\* Slugs as Strings: sequences of bytes ("a", "ab", "b").
Slugs == {<<97>>, <<97, 98>>, <<98>>}

\* The websiteUrl the catalog answers with, cut at its slashes; the last one
\* has no slash at all.
WebsiteUrls ==
    {<<"https:", "", "www.curseforge.com", "minecraft", "mc-mods", s>> : s \in Slugs}
        \cup {<<"curseforge">>}

\* The errors of the input file, of generate_yaml_mod_entry and of the
\* output file.
OpenError == <<"While opening", 0>>
ParseError == <<"While parsing YAML from", 0>>
AddonInfoError == <<"Fetching addon info for project id", 0>>
SlugError == <<"Extracting slug from", 0>>
CreateError == <<"File::create", 0>>
WriteError == <<"serde_yaml::to_writer", 0>>

\* get_slug_from_webpage_url: the regex .*/(?P<slug>.*)$ captures what
\* follows the last slash, and matches nothing without a slash.
get_slug_from_webpage_url(w) ==
    IF Len(w) < 2 THEN Err(SlugError) ELSE Ok(w[Len(w)])

\* YamlMod::with_files(slug, project_id, YamlModFile::with_id(file_id))
YamlModWithFiles(name, id, file_id) ==
    [name |-> name, id |-> id, files |-> <<[id |-> file_id]>>]

\* Ord of String: byte-wise lexicographic.
RECURSIVE StrLeq(_, _)
StrLeq(a, b) ==
    IF a = <<>> THEN TRUE
    ELSE IF b = <<>> THEN FALSE
    ELSE IF a[1] # b[1] THEN a[1] < b[1]
    ELSE StrLeq(Tail(a), Tail(b))

\* The entries left in the order they were resolved in.
SortedByName_Unsorted(entries) == {entries}

\* sort_unstable_by_key(|d| d.name.clone()): the entries rearranged so that
\* the names ascend; entries of equal name come in any order.
SortedByName(entries) ==
    LET n == Len(entries)
        perms == {f \in [1..n -> 1..n] : \A i, j \in 1..n : i # j => f[i] # f[j]}
    IN  {[i \in 1..n |-> entries[f[i]]] : f \in
            {g \in perms : \A i \in 1..(n - 1) :
                StrLeq(entries[g[i]].name, entries[g[i + 1]].name)}}

\* The YamlManifest written: the version of the Curse manifest, no imports,
\* the mods.
YamlManifest(version, mods) ==
    [version |-> version, imports |-> <<>>, mods |-> mods]
\* What is left of the output file when writing it fails.
PartialFile == <<"partial">>
\* A file that was at the output path before the run.
OldFile == <<"old">>

InitYaml ==
    /\ now = ClockStart
    /\ table = {}
    /\ cachedAt = [u \in Urls |-> 0]
    /\ dbLock = None
    /\ rateLimiter = None
    /\ pc = [t \in Threads |-> "idle"]
    /\ url = [t \in Threads |-> None]
    /\ lifetime = [t \in Threads |-> 0]
    /\ kind = [t \in Threads |-> None]
    /\ downloaded_at = [t \in Threads |-> 0]
    /\ calledAt = [t \in Threads |-> 0]
    /\ stale = [t \in Threads |-> FALSE]
    /\ last = NoCall
    /\ calls = 0
    /\ ListIdle
    /\ InfoIdle
    /\ ypc = "start"
    /\ manifest = NoCurseManifest
    /\ mod_entries = <<>>
    /\ yamlFile \in {NoFile, OldFile}
    /\ yamlRet = NoRun
    /\ LoadIdle

\* What a step of generate_yaml_from_curse leaves alone.
YamlFrame == UNCHANGED <<storeVars, listVars, infoVars, loadVars, manifest>>

\* The input file fails to open, or opens and fails to parse as a Curse
\* manifest: `?` returns the error before any mod is resolved.
ReadFails(e) ==
    /\ ypc = "start"
    /\ ypc' = "done"
    /\ yamlRet' = Err(e)
    /\ UNCHANGED <<mod_entries, yamlFile>>
    /\ YamlFrame

\* The input file opens and parses as the Curse manifest m.
Parsed(m) ==
    /\ ypc = "start"
    /\ ypc' = "resolving"
    /\ manifest' = m
    /\ UNCHANGED <<mod_entries, yamlFile, yamlRet>>
    /\ UNCHANGED <<storeVars, listVars, infoVars, loadVars>>

\* The next mod of the manifest.
NextMod == manifest.files[Len(mod_entries) + 1]

\* generate_yaml_mod_entry of the next mod succeeds: the catalog answered
\* with website URL w, which has a slug.
ResolveOk(w) ==
    /\ ypc = "resolving"
    /\ Len(mod_entries) < Len(manifest.files)
    /\ get_slug_from_webpage_url(w).ok
    /\ mod_entries' = Append(mod_entries,
          YamlModWithFiles(get_slug_from_webpage_url(w).val,
                           NextMod.project_id, NextMod.file_id))
    /\ UNCHANGED <<ypc, yamlFile, yamlRet>>
    /\ YamlFrame

\* generate_yaml_mod_entry of the next mod fails with e: collect() stops
\* and `?` returns the error.
ResolveFail(e) ==
    /\ ypc = "resolving"
    /\ Len(mod_entries) < Len(manifest.files)
    /\ ypc' = "done"
    /\ yamlRet' = Err(e)
    /\ mod_entries' = <<>>
    /\ UNCHANGED yamlFile
    /\ YamlFrame

\* Every mod is resolved: the entries are sorted and the file is to be
\* created.  File::create fails.
CreateFails ==
    /\ ypc = "resolving"
    /\ Len(mod_entries) = Len(manifest.files)
    /\ ypc' = "done"
    /\ yamlRet' = Err(CreateError)
    /\ mod_entries' = <<>>
    /\ UNCHANGED yamlFile
    /\ YamlFrame

\* The file is created (truncated), and writing it fails.
WriteFails ==
    /\ ypc = "resolving"
    /\ Len(mod_entries) = Len(manifest.files)
    /\ ypc' = "done"
    /\ yamlRet' = Err(WriteError)
    /\ mod_entries' = <<>>
    /\ yamlFile' = PartialFile
    /\ YamlFrame

\* The file is created and written.
WriteOk(sorted) ==
    /\ ypc = "resolving"
    /\ Len(mod_entries) = Len(manifest.files)
    /\ ypc' = "done"
    /\ yamlRet' = Ok(<<>>)
    /\ mod_entries' = <<>>
    /\ yamlFile' = YamlManifest(manifest.minecraft.version, sorted)
    /\ YamlFrame

NextYaml ==
    \/ \E e \in {OpenError, ParseError} : ReadFails(e)
    \/ \E m \in Manifests : Parsed(m)
    \/ \E w \in WebsiteUrls : ResolveOk(w)
    \/ ResolveFail(AddonInfoError)
    \/ \E w \in WebsiteUrls :
          ~get_slug_from_webpage_url(w).ok /\ ResolveFail(get_slug_from_webpage_url(w).val)
    \/ CreateFails
    \/ WriteFails
    \/ \E sorted \in SortedByName(mod_entries) : WriteOk(sorted)

SpecYaml == InitYaml /\ [][NextYaml]_vars

\* ------------------------------------------------- manifest loading
\* YamlManifest::recursive_load_from_file of a root manifest, one call or
\* return to the step, on manifest files that do not change meanwhile.

\* The manifest files of one directory, the root first.
ManifestNames == {"a.yaml", "b.yaml", "c.yaml"}
Dir == "manifests"

\* Path::parent and Path::join, on paths of a directory and a file name.
parent(path) == path[1]
join(dir, import) == <<dir, import>>

RootPath == join(Dir, "a.yaml")
ManifestPaths == {join(Dir, n) : n \in ManifestNames}

\* The `version` each file states.
VersionOf(n) ==
    CASE n = "a.yaml" -> "1.12.2"
      [] n = "b.yaml" -> "1.16.5"
      [] OTHER -> "1.7.10"

\* The number that tells the entries of one file from another's.
FileNo(n) ==
    CASE n = "a.yaml" -> 1
      [] n = "b.yaml" -> 2
      [] OTHER -> 3

ModNames == {"jei", "iron-chests"}

\* The `imports` a file can state: up to two files of its directory, itself
\* and one file twice included.
ImportLists ==
    {<<>>} \cup {<<x>> : x \in ManifestNames}
           \cup {<<x, y>> : x, y \in ManifestNames}

\* The names of the `mods` a file can state, in the order it states them.
ModNameLists ==
    {<<>>, <<"jei">>, <<"iron-chests">>, <<"jei", "iron-chests">>,
     <<"jei", "jei">>}

\* The YamlMod that file n states at position k under `name`: its id tells
\* which entry it is.
YamlModOf(n, name, k) == [name |-> name, id |-> 10 * FileNo(n) + k]

\* The YamlManifest serde_yaml::from_reader makes of file n.
ParsedManifest(n, imports, names) ==
    [version |-> VersionOf(n),
     imports |-> imports,
     mods |-> [k \in 1..Len(names) |-> YamlModOf(n, names[k], k)]]

Range(q) == {q[i] : i \in DOMAIN q}

\* All the sequences that list the elements of S once each: the orders a
\* HashMap or a HashSet can be iterated in.
Orders(S) ==
    {q \in [1..Cardinality(S) -> S] : \A i, j \in DOMAIN q : i # j => q[i] # q[j]}

RECURSIVE Concat(_)
Concat(seqs) ==
    IF seqs = <<>> THEN <<>> ELSE Head(seqs) \o Concat(Tail(seqs))

\* HashMap::insert in the place of or_insert: the last entry of a name stays.
or_insert_Overwrite(all) ==
    {all[i] : i \in {k \in DOMAIN all :
                        \A j \in DOMAIN all : j > k => all[j].name # all[k].name}}

\* mod_list.entry(&a_mod.name).or_insert(a_mod) over the mods in the order
\* merge visits them: the first entry of each name stays.
or_insert(all) ==
    {all[i] : i \in {k \in DOMAIN all :
                        \A j \in DOMAIN all : j < k => all[j].name # all[k].name}}

\* The imports of the merged manifest with those of `self` kept.
MergedImports_Own(self, others) ==
    Range(self.imports) \cup UNION {Range(o.imports) : o \in Range(others)}

\* imports.extend(other.imports.iter()) for each of `others`.
MergedImports(self, others) ==
    UNION {Range(o.imports) : o \in Range(others)}

\* YamlManifest::merge: the manifests it can return, one for each order the
\* HashSet and the HashMap can be iterated in.
merge(self, others) ==
    LET all == self.mods \o Concat([k \in 1..Len(others) |-> others[k].mods])
    IN  {[version |-> self.version, imports |-> i, mods |-> m] :
            i \in Orders(MergedImports(self, others)),
            m \in Orders(or_insert(all))}

\* The two early returns at the head of recursive_load_from_file, by their
\* context: File::open failed, or serde_yaml::from_reader did.
LoadFailures == {"While opening", "While parsing YAML from"}

\* The contexts an error gathers on its way out of the calls in progress: the
\* one of the failure itself, then one for each import being loaded.
ErrorChain(frames, path, failure) ==
    <<<<failure, path>>>>
        \o [k \in 1..Len(frames) |->
               <<"While importing yaml file",
                 fs[frames[Len(frames) + 1 - k].path]
                    .imports[frames[Len(frames) + 1 - k].next]>>]

NewFrame(path) == [path |-> path, next |-> 1, imported |-> <<>>]

\* The innermost call in progress, its base_manifest, and the path of the
\* import it loads next.
Top == stack[Len(stack)]
Base == fs[Top.path]
relative_path == join(parent(Top.path), Base.imports[Top.next])

InitLoad ==
    /\ now = ClockStart
    /\ table = {}
    /\ cachedAt = [u \in Urls |-> 0]
    /\ dbLock = None
    /\ rateLimiter = None
    /\ pc = [t \in Threads |-> "idle"]
    /\ url = [t \in Threads |-> None]
    /\ lifetime = [t \in Threads |-> 0]
    /\ kind = [t \in Threads |-> None]
    /\ downloaded_at = [t \in Threads |-> 0]
    /\ calledAt = [t \in Threads |-> 0]
    /\ stale = [t \in Threads |-> FALSE]
    /\ last = NoCall
    /\ calls = 0
    /\ ListIdle
    /\ InfoIdle
    /\ YamlIdle
    /\ \E imports \in [ManifestNames -> ImportLists],
          names \in [ManifestNames -> ModNameLists] :
          fs = [p \in ManifestPaths |->
                   ParsedManifest(p[2], imports[p[2]], names[p[2]])]
    /\ stack = <<>>
    /\ loadRet = NoLoad

\* What a step of the load leaves alone.
LoadFrame == UNCHANGED <<storeVars, listVars, infoVars, yamlVars, fs>>

\* recursive_load_from_file(RootPath) is called; the file opens and parses.
StartLoad ==
    /\ stack = <<>>
    /\ loadRet = NoLoad
    /\ stack' = <<NewFrame(RootPath)>>
    /\ loadRet' = [NoLoad EXCEPT !.how = "running"]
    /\ LoadFrame

\* The root file fails to open, or opens and fails to parse.
StartFails(failure) ==
    /\ stack = <<>>
    /\ loadRet = NoLoad
    /\ stack' = <<>>
    /\ loadRet' = [NoLoad EXCEPT !.how = "err",
                                 !.error = ErrorChain(<<>>, RootPath, failure)]
    /\ LoadFrame

\* The loop reaches an import: the call for its path starts.
Import ==
    /\ loadRet.how = "running"
    /\ Top.next <= Len(Base.imports)
    /\ Len(stack) < MaxDepth
    /\ stack' = Append(stack, NewFrame(relative_path))
    /\ UNCHANGED loadRet
    /\ LoadFrame

\* The file of an import fails to open, or opens and fails to parse: every
\* call in progress returns the error, each with its context.
ImportFails(failure) ==
    /\ loadRet.how = "running"
    /\ Top.next <= Len(Base.imports)
    /\ Len(stack) < MaxDepth
    /\ stack' = <<>>
    /\ loadRet' = [NoLoad EXCEPT !.how = "err",
                                 !.error = ErrorChain(stack, relative_path,
                                                      failure)]
    /\ LoadFrame

\* The call for an import finds no room on the stack: the process is aborted.
Overflow ==
    /\ loadRet.how = "running"
    /\ Top.next <= Len(Base.imports)
    /\ Len(stack) = MaxDepth
    /\ stack' = <<>>
    /\ loadRet' = [NoLoad EXCEPT !.how = "overflow"]
    /\ LoadFrame

\* The loop is over: the call returns base_manifest.merge(imported_manifests)
\* to the call that made it, which pushes it, or to the caller of the load.
Return ==
    /\ loadRet.how = "running"
    /\ Top.next > Len(Base.imports)
    /\ \E m \in merge(Base, Top.imported) :
          IF Len(stack) = 1
          THEN /\ stack' = <<>>
               /\ loadRet' = [NoLoad EXCEPT !.how = "ok", !.manifest = m]
          ELSE /\ stack' =
                     [SubSeq(stack, 1, Len(stack) - 1)
                         EXCEPT ![Len(stack) - 1] =
                            [@ EXCEPT !.next = @ + 1,
                                      !.imported = Append(@, m)]]
               /\ UNCHANGED loadRet
    /\ LoadFrame

NextLoad ==
    \/ StartLoad
    \/ \E failure \in LoadFailures : StartFails(failure)
    \/ Import
    \/ \E failure \in LoadFailures : ImportFails(failure)
    \/ Overflow
    \/ Return

SpecLoad == InitLoad /\ [][NextLoad]_vars

\* ------------------------------------------------------------- claims
\* The age of the row of url u at the instant `at`, counted from the instant
\* the row was written.
Age(u, at) == at - cachedAt[u]

\* The bodies the origin can answer the call of thread t with.
Answers(t) == Outputs(url[t])

\* C1 (Freshness): whenever a call looks up a url whose row was written less
\* than the call's lifetime ago, the call is a hit: it returns the row's
\* payload and does not go on to its compute.
C1_Freshness ==
    [][\A t \in Threads :
         (Lookup(t) /\ Rows(url[t]) # {} /\ Age(url[t], now) < lifetime[t])
            => /\ pc'[t] = "idle"
               /\ last'.how = "hit"
               /\ \E r \in Rows(url[t]) : last'.ret = Ok(r.result)]_vars

\* C2 (Staleness): a lookup of a url whose row was written at least the
\* call's lifetime ago is a miss, which leads to the compute; and when the
\* compute succeeds with body p the call returns p and the url's row holds p
\* with a fetched_at that lies, in whole seconds, between the instant of the
\* call and the instant of its return (so equals the second of the call
\* when the call starts and ends within one second).
C2_Staleness ==
    [][\A t \in Threads :
         /\ (Lookup(t) /\ Rows(url[t]) # {} /\ Age(url[t], now) >= lifetime[t])
               => (pc'[t] = "miss" /\ stale'[t])
         /\ \A p \in Answers(t) :
               ComputeOk(t, p)
                  => /\ last'.ret = Ok(p)
                     /\ \E r \in table' :
                           /\ r.url = url[t]
                           /\ r.result = p
                           /\ as_secs(calledAt[t]) <= r.downloaded
                           /\ r.downloaded <= as_secs(now)
                           /\ \A x \in table' : x.url = url[t] => x = r]_vars

\* C3 (Miss-then-hit): a call that computes returns its compute's value, and
\* a call with the same url and lifetime that looks up right after it (no
\* store operation in between, less than the lifetime after the first call
\* began) is a hit that returns that same value.
C3_MissThenHit ==
    [][\A t \in Threads :
         /\ \A p \in Answers(t) : ComputeOk(t, p) => last'.ret = Ok(p)
         /\ (/\ Lookup(t)
             /\ last.how = "stored"
             /\ last.url = url[t]
             /\ last.lifetime = lifetime[t]
             /\ now - last.calledAt < lifetime[t])
               => (last'.how = "hit" /\ last'.ret = last.ret)]_vars

\* No call wrote the url of t's call since t's lookup: the url has no row, or
\* its row was written before the lookup.
Undisturbed(u, lookedUpAt) == Rows(u) = {} \/ cachedAt[u] < lookedUpAt

\* C4 (Compute failure leaves the store unchanged): no step of a call whose
\* compute fails changes the table, the failing step included, and, unless
\* another call wrote the url meanwhile, a lookup of the same url with the
\* same lifetime still finds nothing, so the next call computes again.
C4_FailureLeavesStore ==
    [][\A t \in Threads :
         /\ (Lookup(t) \/ AcquireMiss(t) \/ StartRequest(t) \/ ComputeFail(t))
               => table' = table
         /\ ComputeFail(t)
               => /\ ~last'.ret.ok
                  /\ Undisturbed(url[t], calledAt[t])
                        => Select(table', url[t], LimitSecs(now, lifetime[t])) = {}]_vars

\* C4's case: a call whose compute failed has returned the error, and the
\* stale row it met is still there.
C4_Witness ==
    /\ last.how = "failed" /\ last.ret = Err(ComputeError)
    /\ last.stale /\ Rows(last.url) # {}
    /\ Undisturbed(last.url, last.calledAt)

\* C5 (At most one entry per key): the table never holds two rows of one
\* url, and right after a call stored its result the url's only row is the
\* row that call wrote: its result as the column takes it, and its
\* fetched_at.
C5_OneRowPerUrl ==
    /\ \A u \in Urls : Cardinality(Rows(u)) <= 1
    /\ last.how = "stored"
          => \E r \in table :
                /\ Rows(last.url) = {r}
                /\ r.result = Affinity(last.ret.val)
                /\ as_secs(last.calledAt) <= r.downloaded

\* C5's case: a call wrote a url that already had a row, and the table holds
\* a row of every url.
C5_Witness ==
    /\ last.how = "stored" /\ last.stale
    /\ \A u \in Urls : Cardinality(Rows(u)) = 1

\* C6: every row's fetched_at is the whole second of the instant at which the
\* compute that produced it completed (the instant the row was written).
C6_FetchedAtIsCompletion ==
    \A r \in table : r.downloaded = as_secs(cachedAt[r.url])

\* C7: no thread runs its compute, or has its network call in flight, while
\* it holds the Database lock.
C7_ComputeOutsideLock ==
    \A t \in Threads : pc[t] \in {"compute", "net"} => dbLock # t

\* C8: while one thread's network call is in flight (and may never return),
\* a call for another url that has a fresh row can do its lookup.
C8_HitNotBlocked ==
    \A t, u \in Threads :
        (/\ pc[t] = "net"
         /\ pc[u] = "lookup"
         /\ url[u] # url[t]
         /\ Select(table, url[u], LimitSecs(now, lifetime[u])) # {})
            => ENABLED Lookup(u)

\* C9: every network call in flight is made by a thread that holds the
\* rate_limiter.
C9_NetworkUnderGate ==
    \A t \in Threads : pc[t] = "net" => rateLimiter = t

\* C10: at most one network call is in flight at any moment.
C10_OneInFlight ==
    Cardinality({t \in Threads : pc[t] = "net"}) <= 1

\* C10's case: two fetches of different kinds were asked for concurrently;
\* one has its network call in flight, the other has missed and waits.
C10_Witness ==
    \E t, u \in Threads :
        /\ pc[t] = "net" /\ kind[t] = "file_info"
        /\ pc[u] = "miss" /\ kind[u] = "get"

\* C11 (Cache hits bypass the gate): a call whose lookup finds a fresh row
\* returns that row from the lookup itself: it goes through no compute and no
\* network call, it does not hold the rate_limiter before or after, and the
\* holder of the rate_limiter is left as it was.
C11_HitBypassesGate ==
    [][\A t \in Threads :
         (Lookup(t) /\ Select(table, url[t], LimitSecs(now, lifetime[t])) # {})
            => /\ pc'[t] = "idle"
               /\ last'.how = "hit"
               /\ rateLimiter # t
               /\ rateLimiter' = rateLimiter]_vars

\* C11's case: a call was answered from the cache, and no thread has a network call in flight or holds the rate_limiter.
C11_Witness ==
    /\ last.how = "hit" /\ last.ret.ok
    /\ rateLimiter = None
    /\ \A t \in Threads : pc[t] # "net"

\* C12 (Concurrent miss on the same key): whenever a call stores its body
\* while another thread is in the miss branch for the same url, or after
\* another call stored that url since its own lookup, the call returns its
\* own body, and the url's only row holds that body (the last write).
C12_ConcurrentMiss ==
    [][\A t \in Threads : \A p \in Answers(t) :
         (/\ ComputeOk(t, p)
          /\ \/ \E o \in Threads \ {t} :
                   pc[o] \in {"miss", "compute", "net"} /\ url[o] = url[t]
             \/ ~Undisturbed(url[t], calledAt[t])
             \/ (~stale[t] /\ Rows(url[t]) # {}))
            => /\ last'.ret = Ok(p)
               /\ \E r \in table' :
                     /\ r.result = p
                     /\ {x \in table' : x.url = url[t]} = {r}]_vars

\* C14 (TTL is a parameter of the read): at every instant and for every url
\* with a row of age a, the SELECT of a call with a lifetime above a matches
\* the row (a hit) and the SELECT of a call with a lifetime of at most a
\* matches nothing (a miss), whatever call wrote the row.
C14_TtlOfTheRead ==
    \A u \in Urls : \A life \in Lifetimes :
        Rows(u) # {}
           => IF life > Age(u, now)
              THEN Select(table, u, LimitSecs(now, life)) = Rows(u)
              ELSE Select(table, u, LimitSecs(now, life)) = {}

\* C18 (Compute error pass-through): when the compute of a call fails with
\* error e, the call returns exactly e, neither replaced nor wrapped.
C18_ErrorPassThrough ==
    [][\A t \in Threads : \A e \in DownloadErrors(kind[t]) :
         Fails(t, e) => (pc'[t] = "idle" /\ last'.ret = Err(e))]_vars

\* C18's case: a call has returned the error its closure bailed with.
C18_Witness ==
    /\ last.how = "failed"
    /\ last.ret = Err(XmlError)
    /\ \A t \in Threads : pc[t] = "idle"

\* C19 (No eviction): no step removes a url from the table: a url that has
\* a row keeps having one; and a row of a url appears, be it the url's first
\* row or one written over an earlier row, only in the step in which a call
\* for that url stores the body of its successful compute.
C19_NoEviction ==
    [][\A u \in Urls :
         /\ Rows(u) # {} => \E r \in table' : r.url = u
         /\ (\E r \in table' : r.url = u /\ r \notin table)
               => \E t \in Threads : \E p \in Answers(t) :
                     url[t] = u /\ ComputeOk(t, p)]_vars

\* C19's case: after hits or stores and a failed compute on a stale row, the
\* table still holds a row of every url, the rows written at different
\* instants.
C19_Witness ==
    /\ \A u \in Urls : Rows(u) # {}
    /\ last.how = "failed" /\ last.stale
    /\ \E u, w \in Urls : cachedAt[u] < cachedAt[w]

\* The data of the pages a run has asked for, concatenated in the order of
\* the requests.
RECURSIVE DataOf(_)
DataOf(reqs) ==
    IF reqs = <<>> THEN <<>>
    ELSE DataOf(SubSeq(reqs, 1, Len(reqs) - 1)) \o reqs[Len(reqs)].page.data

\* C15 (Paginated listing): a run of request_mod_files asks for the pages at
\* offsets 0, 50, 100, ... in this order; it asks for no page after one whose
\* pagination reports result_count 0; while it loops, `files` is the
\* concatenation of the data of the pages asked for so far; and when it
\* returns a list, the last page asked for reported result_count 0 and the
\* list is the concatenation, in offset order, of the data of every page
\* asked for (that last page's included), each file with its download URL
\* re-encoded.
C15_PagedListing ==
    /\ \A i \in 1..Len(requested) :
          /\ requested[i].index = (i - 1) * PageSize
          /\ i < Len(requested) => requested[i].page.pagination > 0
    /\ lpc = "loop"
          => /\ current_index = Len(requested) * PageSize
             /\ files = DataOf(requested)
             /\ \A i \in 1..Len(requested) : requested[i].page.pagination > 0
    /\ listRet.ok
          => /\ requested # <<>>
             /\ requested[Len(requested)].page.pagination = 0
             /\ Len(listRet.val) = Len(DataOf(requested))
             /\ \A j \in 1..Len(listRet.val) :
                   /\ listRet.val[j] = encode_url(DataOf(requested)[j])
                   /\ listRet.val[j].id = DataOf(requested)[j].id

\* C15's case: a run asked for two pages, both with files, stopped at the
\* second because it reported result_count 0, and returned the files of
\* both, the first page's first.
C15_Witness ==
    /\ listRet.ok
    /\ Len(requested) = 2
    /\ \A i \in 1..2 : requested[i].page.data # <<>>
    /\ Len(listRet.val) = 4
    /\ listRet.val[1].id < listRet.val[3].id

\* C16 (Missing pagination): when a page a run got and parsed carries no
\* pagination info, the run returns the error (no list), whatever data that
\* page and the pages before it carried; and every page the run fetched from
\* the origin has a row in the cache, which holds the body fetched as long
\* as no other caller has called `get`.
C16_MissingPagination ==
    /\ (/\ requested # <<>>
        /\ requested[Len(requested)].parsed
        /\ requested[Len(requested)].page.pagination = NoPagination)
          => (lpc = "idle" /\ listRet = Err(NoPaginationError))
    /\ \A i \in 1..Len(requested) :
          (requested[i].origin /\ requested[i].parsed)
             => \E r \in table :
                   /\ r.url = PageUrl(requested[i].index)
                   /\ calls = 0 => r.result = PageJson(requested[i].page)

\* C16's case: the second page of a run came without pagination after a
\* first page with files; the run returned the error and both pages, fetched
\* from the origin, are in the cache.
C16_Witness ==
    /\ listRet = Err(NoPaginationError)
    /\ Len(requested) = 2
    /\ requested[1].page.data # <<>> /\ requested[1].origin
    /\ requested[2].page.data # <<>> /\ requested[2].origin
    /\ \E r \in table :
          r.url = PageUrl(0) /\ r.result = PageJson(requested[1].page)

\* C15 as stated: the list a run returns is the concatenation itself of the
\* data of the pages it asked for.
C15_AsStated ==
    listRet.ok => listRet.val = DataOf(requested)

\* C17 (Pages are cached and validated one by one): every iteration of a
\* run asks the cache for the page at its own offset, and its lookup goes
\* on to ask the origin exactly when that page has no entry or an entry as
\* old as the cache timeout (24 hours) or older; an entry younger than that
\* causes no origin request, whatever the state of the other pages' entries.
C17_PagesValidatedAlone ==
    [][(lpc = "loop" /\ pc[Caller] = "lookup" /\ pc'[Caller] # "lookup"
           /\ last'.how # "error")
          => /\ url[Caller] = PageUrl(current_index)
             /\ pc'[Caller] = "miss"
                   <=> \/ Rows(PageUrl(current_index)) = {}
                       \/ Age(PageUrl(current_index), now) >= cache_timeout]_vars

\* The URL both aliases of a forgecdn download URL stand for.
Canon(u) ==
    IF u.host \in {"edge.forgecdn.net", "media.forgecdn.net"}
    THEN [host |-> "media.forgecdn.net", path |-> u.path]
    ELSE u

\* C13 (URL-alias normalization): every request_mod_file_info call for a URL
\* with a host uses as cache key, and asks the origin at, the URL itself, or
\* the media.forgecdn.net URL of the same path when the host is
\* edge.forgecdn.net; so a call made after a call for the same URL or for
\* its alias stored its result is, unless the database fails it, a cache
\* hit, asks the origin for nothing and returns a CurseModFileInfo: the one
\* that call returned, as long as no other caller has called meanwhile.
C13_UrlAlias ==
    [][\A u \in DownloadUrls :
         (u.host # NoHost /\ infoCalls' = infoCalls + 1 /\ info'.input = u)
            => /\ info'.key = Canon(u)
               /\ info'.asked \in {NoUrl, Canon(u)}
               /\ info'.ret.ok => info'.ret.val.download_url = Canon(u)
               /\ (/\ info.ret.ok
                   /\ last'.how # "error"
                   /\ \/ info.input = u
                      \/ /\ info.input.path = u.path
                         /\ info.input.host \in {"edge.forgecdn.net", "media.forgecdn.net"}
                         /\ u.host \in {"edge.forgecdn.net", "media.forgecdn.net"})
                     => /\ info'.hit
                        /\ info'.asked = NoUrl
                        /\ info'.ret.ok
                        /\ calls = 0 => info'.ret = info.ret
               /\ (~info'.hit /\ info'.ret.ok)
                     => \E r \in table' : r.url = Canon(u)]_vars

\* C13's case: a call with the media.forgecdn.net URL downloaded the file,
\* and the call after it, with the edge.forgecdn.net URL of the same path,
\* was a cache hit that returned the same info.
C13_Witness ==
    /\ info.hit
    /\ info.input.host = "edge.forgecdn.net"
    /\ info.before.input = [host |-> "media.forgecdn.net", path |-> info.input.path]
    /\ info.before.asked = info.before.input
    /\ info.ret = info.before.ret
    /\ info.ret.ok
    /\ now > InfoClockStart

\* C20 (yaml from a Curse manifest): while the mods are resolved the output
\* file is not touched; when a mod fails to resolve, the run returns the
\* error and leaves the output file as it was (not created, not written);
\* and when all n mods resolved and the file is written, it holds exactly n
\* mod entries, their names ascending, which are the entries resolved, each
\* with the project id and the file id of its manifest entry.
C20_YamlFromCurse ==
    [][/\ (ypc = "resolving" /\ Len(mod_entries) < Len(manifest.files))
             => /\ yamlFile' = yamlFile
                /\ ypc' = "done" => ~yamlRet'.ok
       /\ \A k \in 1..Len(mod_entries) :
             /\ mod_entries[k].id = manifest.files[k].project_id
             /\ mod_entries[k].files = <<[id |-> manifest.files[k].file_id]>>
       /\ (ypc = "resolving" /\ ypc' = "done" /\ yamlRet'.ok)
             => /\ Len(mod_entries) = Len(manifest.files)
                /\ Len(yamlFile'.mods) = Len(manifest.files)
                /\ \A i, j \in 1..Len(yamlFile'.mods) :
                      i < j => StrLeq(yamlFile'.mods[i].name, yamlFile'.mods[j].name)
                /\ \E f \in [1..Len(manifest.files) -> 1..Len(manifest.files)] :
                      /\ \A i, j \in 1..Len(manifest.files) : i # j => f[i] # f[j]
                      /\ \A i \in 1..Len(manifest.files) :
                            yamlFile'.mods[i] = mod_entries[f[i]]]_vars

\* C20's case: a manifest of three mods was resolved and written; the file
\* holds three entries that come in another order than the manifest's, the
\* last manifest entry first.
C20_Witness ==
    /\ ypc = "done" /\ yamlRet.ok
    /\ Len(manifest.files) = 3
    /\ Len(yamlFile.mods) = 3
    /\ yamlFile.mods[1].id = manifest.files[3].project_id
    /\ yamlFile.mods[1].files[1].id = manifest.files[3].file_id
    /\ manifest.files[1] # manifest.files[3]
    /\ yamlFile.mods[1].name # yamlFile.mods[2].name

\* C23 (No automatic retry): a call goes through its steps once and in one
\* direction: it enters the lookup only by being called, the miss branch only
\* from its lookup, the closure only from the miss branch, the network call
\* only from the start of the closure, and from the network call it can only
\* return, whether the closure succeeded or failed; a call that returns from
\* its lookup is a hit, which never ran the closure, and a call that missed
\* returns only from its one run of the closure.
C23_NoRetry ==
    [][\A t \in Threads :
         /\ (pc'[t] = "lookup" /\ pc[t] # "lookup")
               => (pc[t] = "idle" /\ calls' = calls + 1)
         /\ (pc'[t] = "miss" /\ pc[t] # "miss") => pc[t] = "lookup"
         /\ (pc'[t] = "compute" /\ pc[t] # "compute") => pc[t] = "miss"
         /\ (pc'[t] = "net" /\ pc[t] # "net") => pc[t] = "compute"
         /\ (pc[t] = "net" /\ pc'[t] # "net")
               => (pc'[t] = "idle" /\ last'.how \in {"stored", "failed", "error"})
         /\ (pc'[t] = "idle" /\ pc[t] # "idle")
               => \/ (pc[t] = "lookup" /\ last'.how \in {"hit", "error"})
                  \/ (pc[t] = "net"
                         /\ last'.how \in {"stored", "failed", "error"})]_vars

\* C23's case: the only call made so far missed, ran its closure, which
\* failed, and has returned the error; nothing was stored.
C23_Witness ==
    /\ calls = 1
    /\ last.how = "failed" /\ ~last.ret.ok /\ ~last.stale
    /\ Rows(last.url) = {}
    /\ \A t \in Threads : pc[t] = "idle"

\* C24 (Deadlock freedom): the holder of the rate_limiter always holds the
\* Database lock too and is in its network call, and a thread that waits for
\* the Database lock holds neither lock; so every thread inside a call can
\* take its next step, or waits for the Database lock while the holder of
\* that lock can take its next step (a returning closure being such a step):
\* no state is reached in which the calls under way are stuck.
C24_DeadlockFree ==
    \A t \in Threads :
        /\ rateLimiter = t => (dbLock = t /\ pc[t] = "net")
        /\ pc[t] \in {"lookup", "miss"} => (rateLimiter # t /\ dbLock # t)
        /\ pc[t] # "idle"
              => \/ ENABLED ThreadStep(t)
                 \/ \E h \in Threads \ {t} :
                       /\ dbLock = h
                       /\ pc[t] \in {"lookup", "miss"}
                       /\ ENABLED ThreadStep(h)

\* C24's case: one thread holds both locks for its network call while the
\* other, holding neither, waits for the Database lock to do its lookup.
C24_Witness ==
    \E t, u \in Threads :
        /\ pc[t] = "net" /\ rateLimiter = t /\ dbLock = t
        /\ pc[u] = "lookup"

\* C25 (Payload integrity): in every reachable state every row holds, whole,
\* a body that a successful compute for the row's own url produced; a call
\* that returns Ok returns such a body of its own url, and it is the body of
\* the row the table then holds for that url.
C25_PayloadIntegrity ==
    /\ \A r \in table : r.result \in Outputs(r.url)
    /\ last.ret.ok =>
          /\ last.ret.val \in Outputs(last.url)
          /\ \E r \in Rows(last.url) : r.result = last.ret.val

\* C26 (A cache hit is read-only): a call that returns a cached payload leaves
\* every row as it was, the downloaded instant of the row it read included;
\* and whenever the rows of a url change, the step is the write of a call for
\* that very url.
C26_HitReadOnly ==
    [][/\ (\E t \in Threads : pc[t] = "lookup" /\ pc'[t] = "idle")
             => table' = table
       /\ \A u \in Urls :
             {r \in table' : r.url = u} # {r \in table : r.url = u}
                => \E t \in Threads :
                      pc[t] = "net" /\ url[t] = u /\ last'.how = "stored"]_vars

\* C26's case: a call was answered, seconds after it was written, from a row
\* that still carries the instant it was written at, next to a row of another
\* url.
C26_Witness ==
    /\ last.how = "hit"
    /\ \E r \in Rows(last.url) : r.downloaded < as_secs(last.calledAt)
    /\ \E r \in table : r.url # last.url

\* C27 (Monotone fetched_at): the clock never going back, no step replaces
\* the row of a url by a row with an older downloaded instant, whatever the
\* interleaving of the calls for that url.
C27_MonotoneFetchedAt ==
    [][\A old \in table : \A new \in table' :
          new.url = old.url => new.downloaded >= old.downloaded]_vars

\* C27's case: two calls for one url both missed; the second wrote over the
\* row the first had written after the second's lookup, and the row that
\* remains carries a later second than that lookup's.
C27_Witness ==
    /\ last.how = "stored" /\ last.raced
    /\ \E r \in Rows(last.url) : r.downloaded > as_secs(last.calledAt)

\* The files the load of path p opens: p and whatever is imported from them.
RECURSIVE ImportClosure(_, _)
ImportClosure(S, n) ==
    IF n = 0 THEN S
    ELSE ImportClosure(
            S \cup UNION {{join(parent(q), fs[q].imports[i])
                              : i \in DOMAIN fs[q].imports} : q \in S},
            n - 1)
ImportTree(p) == ImportClosure({p}, Cardinality(ManifestPaths))

\* The results of the loads that have returned so far, each with the path it
\* is the load of: those handed to a call still in progress, and the root's.
Loaded ==
    UNION {{[path |-> join(parent(stack[d].path),
                           fs[stack[d].path].imports[k]),
             manifest |-> stack[d].imported[k]]
               : k \in 1..Len(stack[d].imported)} : d \in DOMAIN stack}
      \cup (IF loadRet.how = "ok"
            THEN {[path |-> RootPath, manifest |-> loadRet.manifest]}
            ELSE {})

\* C21 (Merge excludes duplicates, the importing manifest first): the result
\* of loading a manifest with its imports, the root or one that is imported,
\* has no two mods of one name, has a mod for exactly the names stated in the
\* files of its import tree, and for a name the loaded file states itself it
\* has that file's (first) entry, whatever the imported files state.
C21_MergePriority ==
    \A l \in Loaded :
        LET mods == l.manifest.mods
            own == fs[l.path].mods
        IN  /\ \A i, j \in DOMAIN mods : mods[i].name = mods[j].name => i = j
            /\ {mods[i].name : i \in DOMAIN mods}
                  = UNION {{fs[q].mods[i].name : i \in DOMAIN fs[q].mods}
                              : q \in ImportTree(l.path)}
            /\ \A i \in DOMAIN own :
                  (\A j \in 1..(i - 1) : own[j].name # own[i].name)
                     => own[i] \in Range(mods)

\* C21's case: the root load has returned; the root states a mod by a name
\* that a file it imports directly and a file it imports through that one
\* state as well, and another file brings a name the root does not state.
C21_Witness ==
    /\ loadRet.how = "ok"
    /\ Len(loadRet.manifest.mods) = 2
    /\ \E n \in ModNames :
          /\ n \in {fs[RootPath].mods[i].name : i \in DOMAIN fs[RootPath].mods}
          /\ \E b, c \in ManifestNames \ {"a.yaml"} :
                /\ b # c
                /\ b \in Range(fs[RootPath].imports)
                /\ c \in Range(fs[join(Dir, b)].imports)
                /\ n \in {fs[join(Dir, b)].mods[i].name
                            : i \in DOMAIN fs[join(Dir, b)].mods}
                /\ n \in {fs[join(Dir, c)].mods[i].name
                            : i \in DOMAIN fs[join(Dir, c)].mods}
    /\ \E e \in Range(loadRet.manifest.mods) : e.id > 20

\* No file of the import tree of p is imported, directly or through other
\* files, from itself.
Acyclic(p) ==
    \A q \in ImportTree(p) :
        q \notin ImportClosure(
                    {join(parent(q), fs[q].imports[i]) : i \in DOMAIN fs[q].imports},
                    Cardinality(ManifestPaths))

\* C22 (No imports remain, the root's version): every manifest a load
\* returns, the root's and those of the nested and the repeated imports, has
\* an empty imports list and the version of the file that was loaded; and
\* the load of an acyclic import tree never exhausts the stack.
C22_NoImportsLeft ==
    /\ \A l \in Loaded :
          /\ l.manifest.imports = <<>>
          /\ l.manifest.version = fs[l.path].version
    /\ loadRet.how = "overflow" => ~Acyclic(RootPath)

\* C22's case: the root imports two files, of which the first imports the
\* second again and states another version, and the load has returned.
C22_Witness ==
    /\ loadRet.how = "ok"
    /\ fs[RootPath].imports = <<"b.yaml", "c.yaml">>
    /\ fs[join(Dir, "b.yaml")].imports = <<"c.yaml">>
    /\ fs[join(Dir, "b.yaml")].version # loadRet.manifest.version
    /\ Acyclic(RootPath)

\* C28 (The load terminates): whatever the files import, the load comes to an
\* end by returning: no call is made for a file that a call in progress is
\* already loading (such a call would make the same calls again, without
\* end), and the stack is never exhausted.
C28_LoadTerminates ==
    /\ \A i, j \in DOMAIN stack : stack[i].path = stack[j].path => i = j
    /\ loadRet.how # "overflow"

====
